---- MODULE Spec2Model ----
(***************************************************************************)
(* site2rss: a background loop fetches every configured site, extracts its *)
(* items, reconciles them with the snapshot of the previous cycle, writes  *)
(* the snapshot and publishes three feed strings that HTTP handlers serve. *)
(*                                                                         *)
(* Two versions of the program are modelled, told apart by `variant`:      *)
(*   "query"  src/main.go:1-333    (goquery selectors, updateCache returns *)
(*                                  an error)                              *)
(*   "delim"  src/main.go:334-699  (regex delimiters, updateCache panics)  *)
(* The reconcile / persist / publish part is the same text in both.        *)
(*                                                                         *)
(* Spec runs the whole loop on pages given as the sequence of items their  *)
(* markup yields.  ExtractSpec runs the extraction of one cycle on the     *)
(* text of the page, character by character, for the two versions above   *)
(* and for                                                                 *)
(*   "literal"  src/unnamed/part_000:170-336  (literal delimiters)         *)
(* and goes on to the reconciliation of a first run.  RestartSpec is Spec  *)
(* started over the cache directory of an earlier run.  RaceSpec is Spec   *)
(* with every assignment to the map `state` split into its begin and end.  *)
(*                                                                         *)
(* Time: `now` is the wall clock time.Now() reads.  It never runs          *)
(* backwards, it advances by at least one unit during the HTTP round trip  *)
(* of client.Get, and it may or may not advance between the time.Now()     *)
(* calls of two items of one extraction.                                   *)
(***************************************************************************)
EXTENDS Integers, Sequences, FiniteSets, TLC

\* ---- bounds of the model
NumSites == 2
MaxItems == 2
MaxTime == 4
MaxFrags == 2     \* fragments / item containers of a page of ExtractSpec
MaxIter == 4      \* iterations of the extraction loop that are followed

Sites == 1..NumSites
Titles == {"A", "B"}
Links == {"https://h/a", "https://h/b"}
Descriptions == {"d"}
Formats == {"rss", "atom", "json"}
Variants == {"query", "delim"}

\* the normalized (title, link, description) of one item container / fragment
\* (the pages of the model show two different items, each any number of times)
RawItems ==
    {r \in [Title : Titles, Link : Links, Description : Descriptions] :
        (r.Title = "A") <=> (r.Link = "https://h/a")}

SeqsUpTo(S, n) == UNION {[1..k -> S] : k \in 0..n}

\* a fetched page, as the sequence of items its markup yields
Pages == SeqsUpTo(RawItems, MaxItems)

VARIABLES
    variant,      \* which version of the program runs
    now,          \* wall clock
    proc,         \* "running" | "panicked" (log.Panicln) | "exited" (log.Fatal)
    pc,           \* position of the background goroutine
    idx,          \* index of the site the background loop is at
    page,         \* updateCache: the response body
    items,        \* updateCache: items
    oldEntries,   \* updateCache: oldEntries
    disk,         \* cachePath/<site>.json per site
    state,        \* the global map `state`: site x format -> feed string
    gauge,        \* itemSizesMetrics per site
    lastResult,   \* history: how the last cycle of each site ended
    lastPub,      \* history: the strings published by the last successful cycle
    site,         \* ExtractSpec: updateCache's parameter `site` (no use in Spec)
    rest,         \* ExtractSpec: the content the extraction loop has left
    iter          \* ExtractSpec: iterations of the extraction loop so far

vars == <<variant, now, proc, pc, idx, page, items, oldEntries, disk, state,
          gauge, lastResult, lastPub, site, rest, iter>>

\* the variables of the character-level extraction
scanvars == <<site, rest, iter>>

\* ---- Item and its identity
Triple(it) == <<it.Title, it.Link, it.Description>>

\* the stored fields of an Item (pos, the extraction index, is bookkeeping)
StripItem(it) ==
    [Title |-> it.Title, Link |-> it.Link, Description |-> it.Description,
     AddedAt |-> it.AddedAt]

Strip(s) == [i \in 1..Len(s) |-> StripItem(s[i])]

\* Go's == on two Item values
ItemEq(a, b) == StripItem(a) = StripItem(b)

Max(S) == CHOOSE x \in S : \A y \in S : y <= x

\* ---- extraction
RECURSIVE ExtractQuery(_, _)
\* doc.Find(...).Each: an item whose link an earlier item has is dropped
ExtractQuery(p, acc) ==
    IF p = <<>> THEN acc
    ELSE IF \E i \in 1..Len(acc) : acc[i].Link = Head(p).Link
         THEN ExtractQuery(Tail(p), acc)
         ELSE ExtractQuery(Tail(p), Append(acc, Head(p)))

\* the delimiter loop appends every well-formed fragment
ExtractDelim(p) == p

Extracted(v, p) == IF v = "query" THEN ExtractQuery(p, <<>>) ELSE ExtractDelim(p)

\* the times time.Now() returns for n items, starting at t: d[i] is the
\* clock's advance before the i-th read
Stamp(t, d, i) == t + Cardinality({j \in 2..i : d[j] = 1})

\* ---- reconcile
\* mutant: the carried timestamp is assigned to the loop copy, not to items[newIdx]
CarryOver_LoopCopy(fresh, old) == fresh

\* mutant: an old entry matches when any one field matches (|| for &&)
CarryOver_AnyField(fresh, old) ==
    [i \in 1..Len(fresh) |->
        LET m == {j \in 1..Len(old) : \/ old[j].Title = fresh[i].Title
                                      \/ old[j].Link = fresh[i].Link
                                      \/ old[j].Description = fresh[i].Description}
        IN  IF m = {} THEN fresh[i]
            ELSE [fresh[i] EXCEPT !.AddedAt = old[Max(m)].AddedAt]]

\* every fresh item takes the AddedAt of the last old entry with its triple
CarryOver(fresh, old) ==
    [i \in 1..Len(fresh) |->
        LET m == {j \in 1..Len(old) : Triple(old[j]) = Triple(fresh[i])}
        IN  IF m = {} THEN fresh[i]
            ELSE [fresh[i] EXCEPT !.AddedAt = old[Max(m)].AddedAt]]

\* mutant: the comparison is turned round, the oldest item sorts first
cmp_Ascending(a, b) ==
    IF a.AddedAt = b.AddedAt THEN 0
    ELSE IF a.AddedAt < b.AddedAt THEN -1 ELSE 1

\* mutant: equal timestamps compare as "a before b"
cmp_NoTie(a, b) == IF a.AddedAt >= b.AddedAt THEN -1 ELSE 1

\* the comparison function handed to slices.SortStableFunc
cmp(a, b) ==
    IF a.AddedAt = b.AddedAt THEN 0
    ELSE IF a.AddedAt > b.AddedAt THEN -1 ELSE 1

Swap(s, i, j) == [s EXCEPT ![i] = s[j], ![j] = s[i]]

RECURSIVE SinkDown(_, _)
\* inner loop of the insertion sort: for j := i; j > a && cmp(s[j], s[j-1]) < 0; j--
SinkDown(s, j) ==
    IF j > 1 /\ cmp(s[j], s[j-1]) < 0 THEN SinkDown(Swap(s, j, j-1), j-1) ELSE s

RECURSIVE InsertionSort(_, _)
InsertionSort(s, i) ==
    IF i > Len(s) THEN s ELSE InsertionSort(SinkDown(s, i), i + 1)

\* slices.SortStableFunc: an insertion sort for slices of up to 20 elements
SortStable(s) == InsertionSort(s, 2)

\* slices.Compact: an element equal to its predecessor is dropped
Compact(s) ==
    LET keep == {i \in 1..Len(s) : i = 1 \/ ~ItemEq(s[i], s[i-1])}
        nth(k) == CHOOSE i \in keep : Cardinality({j \in keep : j <= i}) = k
    IN  [k \in 1..Cardinality(keep) |-> s[nth(k)]]

\* mutant: the entries of the prior snapshot that the fresh list lacks are
\* kept behind the fresh ones
Reconcile_KeepOld(fresh, old) ==
    LET gone == SelectSeq(old, LAMBDA o :
                    \A i \in 1..Len(fresh) : Triple(fresh[i]) # Triple(o))
    IN  Compact(SortStable(CarryOver(fresh, old))) \o gone

Reconcile(fresh, old) == Compact(SortStable(CarryOver(fresh, old)))

\* ---- feed strings
\* the string feed.ToRss / ToAtom / ToJSON renders from the item list (the
\* renderers return no error for a feed of plain strings and times)
Render(f, its) == [fmt |-> f, items |-> Strip(its)]

\* a key the map `state` does not hold reads as the empty string
EmptyString == [fmt |-> "", items |-> <<>>]

\* what a request for /<site>/<format> is answered with
NoResponse == [fmt |-> "no response", items |-> <<>>]
Served(s, f) == IF proc = "running" THEN state[<<s, f>>] ELSE NoResponse

\* ---- fetch failures
\* mutant: a failed fetch panics, as in the older version
OnFetchError_Panic(v, kind) == "panic"

\* what updateCache does with a failed fetch of the given kind
OnFetchError(v, kind) ==
    IF v = "query" THEN "return"
    ELSE IF kind = "non200" THEN "proceed" ELSE "panic"

NoFile == [exists |-> FALSE, items |-> <<>>]

\* the zero value of Site (the fields the extraction reads)
NoSite ==
    [URL |-> "", ItemStart |-> "", ItemEnd |-> "", LinkStart |-> "",
     LinkEnd |-> "", TitleStart |-> "", TitleEnd |-> "",
     DescriptionStart |-> "", DescriptionEnd |-> ""]

Init ==
    /\ variant \in Variants
    /\ now = 0
    /\ proc = "running"
    /\ pc = "fetch"
    /\ idx = 1
    /\ page = <<>>
    /\ items = <<>>
    /\ oldEntries = <<>>
    /\ disk = [s \in Sites |-> NoFile]
    /\ state = [k \in Sites \X Formats |-> EmptyString]
    /\ gauge = [s \in Sites |-> 0]
    /\ lastResult = [s \in Sites |-> "none"]
    /\ lastPub = [k \in Sites \X Formats |-> EmptyString]
    /\ site = NoSite
    /\ rest = ""
    /\ iter = 0

\* mutant: the sleep sits outside the pass loop, the next pass starts at once
Return_NoSleep(count, result) ==
    /\ gauge' = [gauge EXCEPT ![idx] = count]
    /\ lastResult' = [lastResult EXCEPT ![idx] = result]
    /\ page' = <<>>
    /\ items' = <<>>
    /\ oldEntries' = <<>>
    /\ pc' = "fetch"
    /\ idx' = IF idx < NumSites THEN idx + 1 ELSE 1

\* main: updateCache has returned; metrics are set and the loop goes on
Return(count, result) ==
    /\ gauge' = [gauge EXCEPT ![idx] = count]
    /\ lastResult' = [lastResult EXCEPT ![idx] = result]
    /\ page' = <<>>
    /\ items' = <<>>
    /\ oldEntries' = <<>>
    /\ IF idx < NumSites
       THEN idx' = idx + 1 /\ pc' = "fetch"
       ELSE idx' = idx /\ pc' = "sleep"

\* the process ends (log.Panicln in the goroutine, or log.Fatal) and its
\* memory with it
Die(how, result) ==
    /\ proc' = how
    /\ lastResult' = [lastResult EXCEPT ![idx] = result]
    /\ page' = <<>>
    /\ items' = <<>>
    /\ oldEntries' = <<>>
    /\ state' = [k \in Sites \X Formats |-> EmptyString]
    /\ gauge' = [s \in Sites |-> 0]
    /\ UNCHANGED <<pc, idx>>

\* client.Get and reading the body succeed with status 200
FetchOK ==
    /\ proc = "running" /\ pc = "fetch" /\ now < MaxTime
    /\ \E p \in Pages : page' = p
    /\ now' = now + 1
    /\ pc' = "extract"
    /\ UNCHANGED <<variant, proc, idx, items, oldEntries, disk, state, gauge,
                   lastResult, lastPub>>
    /\ UNCHANGED scanvars

\* client.Get fails, the status is not 200, or the body cannot be read
FetchFail ==
    /\ proc = "running" /\ pc = "fetch" /\ now < MaxTime
    /\ now' = now + 1
    /\ \E kind \in {"neterr", "non200", "badbody"} :
         LET what == OnFetchError(variant, kind) IN
           \/ /\ what = "return"
              /\ Return(0, "fetch_err")
              /\ UNCHANGED <<proc, state>>
           \/ /\ what = "panic"
              /\ Die("panicked", "fetch_err")
           \/ /\ what = "proceed"
              /\ \E p \in Pages : page' = p
              /\ pc' = "extract"
              /\ UNCHANGED <<proc, idx, items, oldEntries, gauge, lastResult,
                             state>>
    /\ UNCHANGED <<variant, disk, lastPub>>
    /\ UNCHANGED scanvars

\* the extraction loop: every item is stamped with time.Now().UTC()
Extract ==
    /\ proc = "running" /\ pc = "extract"
    /\ LET fresh == Extracted(variant, page)
           n == Len(fresh)
       IN  \E d \in [1..n -> {0, 1}] :
             /\ Stamp(now, d, n) <= MaxTime
             /\ items' = [i \in 1..n |->
                            [Title |-> fresh[i].Title, Link |-> fresh[i].Link,
                             Description |-> fresh[i].Description,
                             AddedAt |-> Stamp(now, d, i), pos |-> i]]
             /\ now' = Stamp(now, d, n)
    /\ pc' = "load"
    /\ UNCHANGED <<variant, proc, idx, page, oldEntries, disk, state, gauge,
                   lastResult, lastPub>>
    /\ UNCHANGED scanvars

\* mutant: the feed strings are restored from the snapshot that was read
LoadOK_Restores ==
    /\ proc = "running" /\ pc = "load"
    /\ oldEntries' = IF disk[idx].exists THEN disk[idx].items ELSE <<>>
    /\ state' = [k \in Sites \X Formats |->
                   IF k[1] = idx /\ disk[idx].exists
                   THEN Render(k[2], disk[idx].items) ELSE state[k]]
    /\ pc' = "reconcile"
    /\ UNCHANGED <<variant, now, proc, idx, page, items, disk, gauge,
                   lastResult, lastPub>>
    /\ UNCHANGED scanvars

\* mutant: the "no such file" test is gone, a missing file is a read error
LoadOK_MissingIsError ==
    /\ proc = "running" /\ pc = "load"
    /\ disk[idx].exists
    /\ oldEntries' = disk[idx].items
    /\ pc' = "reconcile"
    /\ UNCHANGED <<variant, now, proc, idx, page, items, disk, state, gauge,
                   lastResult, lastPub>>
    /\ UNCHANGED scanvars

\* os.ReadFile + json.Unmarshal; a missing file leaves oldEntries empty
LoadOK ==
    /\ proc = "running" /\ pc = "load"
    /\ oldEntries' = IF disk[idx].exists THEN disk[idx].items ELSE <<>>
    /\ pc' = "reconcile"
    /\ UNCHANGED <<variant, now, proc, idx, page, items, disk, state, gauge,
                   lastResult, lastPub>>
    /\ UNCHANGED scanvars

\* the read fails otherwise, or the file does not decode: log.Panicln
LoadFail ==
    /\ proc = "running" /\ pc = "load"
    /\ Die("panicked", "read_err")
    /\ UNCHANGED <<variant, now, disk, lastPub>>
    /\ UNCHANGED scanvars

\* carry the timestamps over, sort, compact
ReconcileStep ==
    /\ proc = "running" /\ pc = "reconcile"
    /\ items' = Reconcile(items, oldEntries)
    /\ pc' = "persist"
    /\ UNCHANGED <<variant, now, proc, idx, page, oldEntries, disk, state,
                   gauge, lastResult, lastPub>>
    /\ UNCHANGED scanvars

\* mutant: the file is written from the list that was read, not from items
PersistOK_KeepsOld ==
    /\ proc = "running" /\ pc = "persist"
    /\ disk' = [disk EXCEPT ![idx] = [exists |-> TRUE, items |-> oldEntries]]
    /\ pc' = "pub_rss"
    /\ UNCHANGED <<variant, now, proc, idx, page, items, oldEntries, state,
                   gauge, lastResult, lastPub>>
    /\ UNCHANGED scanvars

\* json.MarshalIndent + os.WriteFile
PersistOK ==
    /\ proc = "running" /\ pc = "persist"
    /\ disk' = [disk EXCEPT ![idx] = [exists |-> TRUE, items |-> Strip(items)]]
    /\ pc' = "pub_rss"
    /\ UNCHANGED <<variant, now, proc, idx, page, items, oldEntries, state,
                   gauge, lastResult, lastPub>>
    /\ UNCHANGED scanvars

\* os.WriteFile fails: log.Fatal
PersistFail ==
    /\ proc = "running" /\ pc = "persist"
    /\ Die("exited", "write_err")
    /\ UNCHANGED <<variant, now, disk, lastPub>>
    /\ UNCHANGED scanvars

\* mutant: the first feed string is stored in place of the snapshot write
Publish_BeforePersist(f) ==
    /\ proc = "running" /\ pc = (IF f = "rss" THEN "persist" ELSE "pub_" \o f)
    /\ state' = [state EXCEPT ![<<idx, f>>] = Render(f, items)]

\* state[strings.ToLower(site.Name)+"_"+f] = the string rendered from items
Publish(f) ==
    /\ proc = "running" /\ pc = "pub_" \o f
    /\ state' = [state EXCEPT ![<<idx, f>>] = Render(f, items)]

PublishRss ==
    /\ Publish("rss")
    /\ pc' = "pub_atom"
    /\ UNCHANGED <<variant, now, proc, idx, page, items, oldEntries, disk,
                   gauge, lastResult, lastPub>>
    /\ UNCHANGED scanvars

PublishAtom ==
    /\ Publish("atom")
    /\ pc' = "pub_json"
    /\ UNCHANGED <<variant, now, proc, idx, page, items, oldEntries, disk,
                   gauge, lastResult, lastPub>>
    /\ UNCHANGED scanvars

\* the last string is stored and updateCache returns len(items)
PublishJson ==
    /\ Publish("json")
    /\ lastPub' = [k \in Sites \X Formats |->
                     IF k[1] = idx THEN state'[k] ELSE lastPub[k]]
    /\ Return(Len(items), "ok")
    /\ UNCHANGED <<variant, now, proc, disk>>
    /\ UNCHANGED scanvars

\* time.Sleep(*updateInterval), then the next pass
Sleep ==
    /\ proc = "running" /\ pc = "sleep"
    /\ pc' = "fetch"
    /\ idx' = 1
    /\ UNCHANGED <<variant, now, proc, page, items, oldEntries, disk, state,
                   gauge, lastResult, lastPub>>
    /\ UNCHANGED scanvars

\* an HTTP handler answers a request for a site and format with the entry
\* of the map `state`, Served(s, f); it reads the map and changes nothing
HandleRequest ==
    /\ proc = "running"
    /\ \A s \in Sites, f \in Formats : Served(s, f) = state[<<s, f>>]
    /\ UNCHANGED vars

Next ==
    \/ FetchOK
    \/ FetchFail
    \/ Extract
    \/ LoadOK
    \/ LoadFail
    \/ ReconcileStep
    \/ PersistOK
    \/ PersistFail
    \/ PublishRss
    \/ PublishAtom
    \/ PublishJson
    \/ Sleep
    \/ HandleRequest

Spec == Init /\ [][Next]_vars

\* ---- RestartSpec: the process starts over a cache directory that an
\* earlier run has left.  The earlier run stamped its items before this
\* process started (time 0); the map `state` starts empty all the same.

\* cache/<site>.json as an earlier run wrote it
PriorSnapshot ==
    [exists |-> TRUE,
     items |-> <<[Title |-> "A", Link |-> "https://h/a", Description |-> "d",
                  AddedAt |-> 0]>>]

RestartInit ==
    /\ variant \in Variants
    /\ now = 0
    /\ proc = "running"
    /\ pc = "fetch"
    /\ idx = 1
    /\ page = <<>>
    /\ items = <<>>
    /\ oldEntries = <<>>
    /\ disk \in {d \in [Sites -> {NoFile, PriorSnapshot}] : d[1] = PriorSnapshot}
    /\ state = [k \in Sites \X Formats |-> EmptyString]
    /\ gauge = [s \in Sites |-> 0]
    /\ lastResult = [s \in Sites |-> "none"]
    /\ lastPub = [k \in Sites \X Formats |-> EmptyString]
    /\ site = NoSite
    /\ rest = ""
    /\ iter = 0

RestartSpec == RestartInit /\ [][Next]_vars

\* ---- strings: Go's strings, html, regexp and net/url on the inputs of
\* ---- ExtractSpec
Min(S) == CHOOSE x \in S : \A y \in S : x <= y

\* strings.Index, counted from 1; 0 when sep does not occur.  The empty
\* separator occurs at the start of every string.
Index(s, sep) ==
    LET at == {i \in 1..(Len(s) - Len(sep) + 1) :
                   SubSeq(s, i, i + Len(sep) - 1) = sep}
    IN  IF at = {} THEN 0 ELSE Min(at)

\* strings.Cut
Cut(s, sep) ==
    LET i == Index(s, sep) IN
    IF i = 0 THEN [before |-> s, after |-> "", found |-> FALSE]
    ELSE [before |-> SubSeq(s, 1, i - 1),
          after |-> SubSeq(s, i + Len(sep), Len(s)), found |-> TRUE]

HasPrefix(s, pre) == Len(s) >= Len(pre) /\ SubSeq(s, 1, Len(pre)) = pre
HasSuffix(s, suf) ==
    Len(s) >= Len(suf) /\ SubSeq(s, Len(s) - Len(suf) + 1, Len(s)) = suf

RECURSIVE TrimSpace(_)
\* strings.TrimSpace (the pages of the model have no white space but " ")
TrimSpace(s) ==
    IF HasPrefix(s, " ") /\ s # "" THEN TrimSpace(SubSeq(s, 2, Len(s)))
    ELSE IF HasSuffix(s, " ") /\ s # "" THEN TrimSpace(SubSeq(s, 1, Len(s) - 1))
    ELSE s

RECURSIVE UnescapeString(_)
\* html.UnescapeString (the pages of the model have no entity but &amp;)
UnescapeString(s) ==
    LET c == Cut(s, "&amp;") IN
    IF c.found THEN c.before \o "&" \o UnescapeString(c.after) ELSE s

\* regexp.MustCompile(pat).FindString(s) for a pattern without
\* metacharacters: the text of the leftmost match, "" when there is no match
\* and "" when the match is empty
FindString(pat, s) == IF pat # "" /\ Index(s, pat) # 0 THEN pat ELSE ""

RECURSIVE Clean(_)
\* path.Clean of a rooted path without "." and ".." elements
Clean(p) ==
    LET c == Cut(p, "//") IN
    IF c.found THEN Clean(c.before \o "/" \o c.after)
    ELSE IF Len(p) > 1 /\ HasSuffix(p, "/") THEN SubSeq(p, 1, Len(p) - 1)
    ELSE p

\* url.JoinPath(base, elem) for a base that parses as a relative path and
\* characters that need no escaping
JoinPath(base, elem) ==
    LET first == "/" \o base
        joined == IF elem = "" THEN first ELSE first \o "/" \o elem
        cleaned == Clean(joined)
        p == SubSeq(cleaned, 2, Len(cleaned))
    IN  IF HasSuffix(elem, "/") /\ ~HasSuffix(p, "/") THEN p \o "/" ELSE p

\* url.Parse(u).Host of an URL without user, port and query
HostOf(u) ==
    LET c == Cut(u, "://") IN
    IF c.found THEN Cut(c.after, "/").before ELSE ""

\* mutant: the joined link is published as it is, without the scheme
NormalizeLink_NoScheme(st, linkRaw) ==
    TrimSpace(JoinPath(HostOf(st.URL), linkRaw))

\* link := JoinPath(siteURL.Host, linkRaw), trimmed, "https://" before it
\* unless it begins with "http"
NormalizeLink(st, linkRaw) ==
    LET link == TrimSpace(JoinPath(HostOf(st.URL), linkRaw)) IN
    IF HasPrefix(link, "http") THEN link ELSE "https://" \o link

\* the fields of the Item appended for the raw strings of a fragment or
\* container
Normalized(st, linkRaw, titleRaw, descriptionRaw) ==
    [Link |-> NormalizeLink(st, linkRaw),
     Title |-> TrimSpace(UnescapeString(titleRaw)),
     Description |-> TrimSpace(UnescapeString(descriptionRaw))]

\* ---- one iteration of the delimiter loop.  The result says how the
\* iteration ends ("break", "continue" or "append"), the value of `rest` at
\* that point, the fragment itemRaw ("" before it is cut) and, for "append",
\* the fields of the new item.
Outcome(op, r, itemRaw, fields) ==
    [op |-> op, rest |-> r, itemRaw |-> itemRaw, fields |-> fields]

NoFields == [Link |-> "", Title |-> "", Description |-> ""]

\* src/unnamed/part_000:186-249
IterLiteral(st, r) ==
    LET c1 == Cut(r, st.ItemStart) IN
    IF ~c1.found THEN Outcome("break", r, "", NoFields) ELSE
    LET c2 == Cut(c1.after, st.ItemEnd)
        itemRaw == c2.before
    IN
    IF ~c2.found THEN Outcome("break", c2.after, "", NoFields) ELSE
    LET l1 == Cut(itemRaw, st.LinkStart) IN
    IF ~l1.found THEN Outcome("break", c2.after, itemRaw, NoFields) ELSE
    LET l2 == Cut(l1.after, st.LinkEnd)
        linkRaw == l2.before
    IN
    IF ~l2.found \/ linkRaw = "" \/ linkRaw = "/"
    THEN Outcome("continue", c2.after, itemRaw, NoFields) ELSE
    LET t1 == Cut(itemRaw, st.TitleStart) IN
    IF ~t1.found THEN Outcome("continue", c2.after, itemRaw, NoFields) ELSE
    LET t2 == Cut(t1.after, st.TitleEnd) IN
    IF ~t2.found THEN Outcome("continue", c2.after, itemRaw, NoFields) ELSE
    LET d1 == Cut(itemRaw, st.DescriptionStart) IN
    IF ~d1.found THEN Outcome("continue", c2.after, itemRaw, NoFields) ELSE
    LET d2 == Cut(d1.after, st.DescriptionEnd) IN
    IF ~d2.found THEN Outcome("continue", c2.after, itemRaw, NoFields) ELSE
    Outcome("append", c2.after, itemRaw,
            Normalized(st, linkRaw, t2.before, d2.before))

\* src/main.go:526-609
IterRegex(st, r) ==
    LET regItemStart == FindString(st.ItemStart, r) IN
    IF regItemStart = "" THEN Outcome("break", r, "", NoFields) ELSE
    LET c1 == Cut(r, regItemStart) IN
    IF ~c1.found THEN Outcome("break", r, "", NoFields) ELSE
    LET regItemEnd == FindString(st.ItemEnd, c1.after) IN
    IF regItemEnd = "" THEN Outcome("break", r, "", NoFields) ELSE
    LET c2 == Cut(c1.after, regItemEnd)
        itemRaw == c2.before
    IN
    IF ~c2.found THEN Outcome("break", c2.after, "", NoFields) ELSE
    LET l1 == Cut(itemRaw, st.LinkStart) IN
    IF ~l1.found THEN Outcome("break", c2.after, itemRaw, NoFields) ELSE
    LET l2 == Cut(l1.after, st.LinkEnd)
        linkRaw == l2.before
    IN
    IF ~l2.found \/ linkRaw = "" \/ linkRaw = "/"
    THEN Outcome("continue", c2.after, itemRaw, NoFields) ELSE
    LET regTitleStart == FindString(st.TitleStart, itemRaw) IN
    IF regTitleStart = "" THEN Outcome("continue", c2.after, itemRaw, NoFields) ELSE
    LET t1 == Cut(itemRaw, regTitleStart) IN
    IF ~t1.found THEN Outcome("continue", c2.after, itemRaw, NoFields) ELSE
    LET regTitleEnd == FindString(st.TitleEnd, t1.after) IN
    IF regTitleEnd = "" THEN Outcome("continue", c2.after, itemRaw, NoFields) ELSE
    LET t2 == Cut(t1.after, regTitleEnd) IN
    IF ~t2.found THEN Outcome("continue", c2.after, itemRaw, NoFields) ELSE
    LET d1 == Cut(itemRaw, FindString(st.DescriptionStart, itemRaw)) IN
    IF ~d1.found THEN Outcome("continue", c2.after, itemRaw, NoFields) ELSE
    LET d2 == Cut(d1.after, FindString(st.DescriptionEnd, d1.after)) IN
    IF ~d2.found THEN Outcome("continue", c2.after, itemRaw, NoFields) ELSE
    Outcome("append", c2.after, itemRaw,
            Normalized(st, linkRaw, t2.before, d2.before))

\* mutant: the last fragment runs to the end of the content when its
\* item-end marker is missing
Iteration_TrailingItem(v, st, r) ==
    IF v = "literal" THEN IterLiteral(st, r \o st.ItemEnd)
    ELSE IterRegex(st, r \o st.ItemEnd)

\* the loop body of the version that runs
Iteration(v, st, r) ==
    IF v = "literal" THEN IterLiteral(st, r) ELSE IterRegex(st, r)

\* ---- the inputs of ExtractSpec
ScanVariants == {"query", "delim", "literal"}

\* the rule of the list-of-links example
ListRule ==
    [URL |-> "https://ex.com", ItemStart |-> "<li>", ItemEnd |-> "</li>",
     LinkStart |-> "href=\"", LinkEnd |-> "\"", TitleStart |-> ">",
     TitleEnd |-> "<", DescriptionStart |-> "", DescriptionEnd |-> ""]

\* a rule with markers for all four parts
FullRule ==
    [URL |-> "https://ex.com", ItemStart |-> "<li>", ItemEnd |-> "</li>",
     LinkStart |-> "href=\"", LinkEnd |-> "\"", TitleStart |-> "<b>",
     TitleEnd |-> "</b>", DescriptionStart |-> "<p>",
     DescriptionEnd |-> "</p>"]

\* a rule whose markers were all left out of the configuration file
EmptyRule == [NoSite EXCEPT !.URL = "https://ex.com"]

ListFragments ==
    {"<li><a href=\"/a\">Title A</a></li>",
     "<li><a href=\"/b\">Title B</a></li>",
     "<li><a>Title C</a></li>",
     "<li><a href=\"/c>Title C</a></li>",
     "<li><a href=\"\">Title D</a></li>",
     "<li><a href=\"/\">Home</a></li>",
     "<li><a href=\"/e\">Title E</a>",
     "<li>href=\"/f\"</li>",
     "<li>href=\"/g\">Title G</li>"}

FullFragments ==
    {"<li>href=\"/a\"<b>A</b><p>d</p></li>",
     "<li>href=\"/b\"<b>Q&amp;A</b><p> d </p></li>",
     "<li>href=\"/c\"<b>C</b></li>",
     "<li>href=\"/c\"<b>C</b><p>d</li>",
     "<li>href=\"/c\"<p>d</p></li>",
     "<li>href=\"/c\"<b>C<p>d</p></li>"}

EmptyRuleFragments == {"<li>x</li>"}

RECURSIVE Concat(_)
Concat(q) == IF q = <<>> THEN "" ELSE Head(q) \o Concat(Tail(q))

\* the page texts made of up to MaxFrags of the given fragments
Texts(frags) == {Concat(q) : q \in SeqsUpTo(frags, MaxFrags)}

\* ---- the document of the query version.  An item container is the
\* sequence of its elements; an element has a tag, a text and at most one
\* attribute (attr, val).  Selectors are tag names.
Element(tag, text, attr, val) ==
    [tag |-> tag, text |-> text, attr |-> attr, val |-> val]

\* Selection.Find(selector)
Find(s, selector) == SelectSeq(s, LAMBDA e : e.tag = selector)

\* Selection.Attr(name): the attribute of the first element, "" without it
Attr(el, name) ==
    IF el # <<>> /\ el[1].attr = name THEN el[1].val ELSE ""

RECURSIVE Text(_)
\* Selection.Text(): the texts of the elements, one after the other
Text(el) == IF el = <<>> THEN "" ELSE Head(el).text \o Text(Tail(el))

\* strings.SplitN(selector, "@", 2)
SplitN2(selector) ==
    LET c == Cut(selector, "@") IN
    IF c.found THEN <<c.before, c.after>> ELSE <<selector>>

\* src/main.go:324-332
getField(s, selector) ==
    LET parts == SplitN2(selector)
        el == Find(s, parts[Len(parts)])
    IN  IF Len(parts) = 2 THEN Attr(el, parts[Len(parts) - 1]) ELSE Text(el)

\* the containers of the pages: with or without a link element, a title
\* element and a description element
Containers ==
    {l \o t \o d :
        l \in {<<Element("a", "", "href", "/a")>>,
                <<Element("a", "", "href", "/b")>>,
                <<Element("a", "", "href", "/")>>, <<>>},
        t \in {<<Element("h3", "Title A", "", "")>>, <<>>},
        d \in {<<Element("p", "d", "", "")>>, <<>>}}

\* a site of the query version whose link rule is in the form getField
\* reads as "attribute href of the elements a"
QueryRule ==
    [URL |-> "https://ex.com",
     Selector |-> [Item |-> "li", Link |-> "href@a", Title |-> "h3",
                   Description |-> "p"]]

\* the same site with the link rule written as query@attribute
DocumentedRule == [QueryRule EXCEPT !.Selector.Link = "a@href"]

\* the same site on a host whose name begins with "http"
HttpHostRule == [QueryRule EXCEPT !.URL = "https://httpbin.org"]

\* version, rule and page of a run of the extraction
ScanInputs ==
    {<<v, ListRule, t>> : v \in {"delim", "literal"}, t \in Texts(ListFragments)}
    \cup {<<v, FullRule, t>> : v \in {"delim", "literal"}, t \in Texts(FullFragments)}
    \cup {<<v, EmptyRule, t>> : v \in {"delim", "literal"},
                                 t \in Texts(EmptyRuleFragments)}
    \cup {<<"query", QueryRule, d>> : d \in SeqsUpTo(Containers, MaxFrags)}
    \cup {<<"query", r, d>> : r \in {DocumentedRule, HttpHostRule},
                              d \in SeqsUpTo(Containers, 1)}

\* updateCache is at the extraction of the first site's first cycle
ExtractInit ==
    /\ \E inp \in ScanInputs :
         /\ variant = inp[1]
         /\ site = inp[2]
         /\ page = inp[3]
         /\ rest = inp[3]
    /\ now = 1
    /\ proc = "running"
    /\ pc = "extract"
    /\ idx = 1
    /\ items = <<>>
    /\ oldEntries = <<>>
    /\ disk = [s \in Sites |-> NoFile]
    /\ state = [k \in Sites \X Formats |-> EmptyString]
    /\ gauge = [s \in Sites |-> 0]
    /\ lastResult = [s \in Sites |-> "none"]
    /\ lastPub = [k \in Sites \X Formats |-> EmptyString]
    /\ iter = 0

\* items = append(items, Item{..., AddedAt: time.Now().UTC()}): the clock may
\* have advanced since the previous item was stamped
AppendItem(fields) ==
    \E d \in {0, 1} :
        /\ items = <<>> => d = 0
        /\ now + d <= MaxTime
        /\ now' = now + d
        /\ items' = Append(items,
                           [Title |-> fields.Title, Link |-> fields.Link,
                            Description |-> fields.Description,
                            AddedAt |-> now + d, pos |-> Len(items) + 1])

\* one iteration of the for loop of the delimiter versions
DelimLoop ==
    /\ proc = "running" /\ pc = "extract"
    /\ variant \in {"delim", "literal"}
    /\ iter < MaxIter
    /\ iter' = iter + 1
    /\ LET out == Iteration(variant, site, rest) IN
         /\ rest' = out.rest
         /\ \/ /\ out.op = "break"
               /\ pc' = "load"
               /\ UNCHANGED <<items, now>>
            \/ /\ out.op = "continue"
               /\ UNCHANGED <<pc, items, now>>
            \/ /\ out.op = "append"
               /\ AppendItem(out.fields)
               /\ UNCHANGED pc
    /\ UNCHANGED <<variant, proc, idx, page, oldEntries, disk, state, gauge,
                   lastResult, lastPub, site>>

\* the Item fields the callback makes of the container s
FieldsOf(st, s) ==
    Normalized(st, getField(s, st.Selector.Link),
               getField(s, st.Selector.Title),
               getField(s, st.Selector.Description))

\* mutant: a container without title or description text is skipped
EachItem_SkipMissing ==
    /\ proc = "running" /\ pc = "extract"
    /\ variant = "query"
    /\ rest # <<>>
    /\ iter' = iter + 1
    /\ rest' = Tail(rest)
    /\ LET fields == FieldsOf(site, Head(rest))
       IN  IF \/ \E i \in 1..Len(items) : items[i].Link = fields.Link
              \/ fields.Title = "" \/ fields.Description = ""
           THEN UNCHANGED <<items, now>>
           ELSE AppendItem(fields)
    /\ UNCHANGED <<variant, proc, pc, idx, page, oldEntries, disk, state,
                   gauge, lastResult, lastPub, site>>

\* mutant: the loop over the earlier items compares whole items, not links
EachItem_WholeItem ==
    /\ proc = "running" /\ pc = "extract"
    /\ variant = "query"
    /\ rest # <<>>
    /\ iter' = iter + 1
    /\ rest' = Tail(rest)
    /\ LET fields == FieldsOf(site, Head(rest))
       IN  IF \E i \in 1..Len(items) :
                 <<items[i].Title, items[i].Link, items[i].Description>>
                    = <<fields.Title, fields.Link, fields.Description>>
           THEN UNCHANGED <<items, now>>
           ELSE AppendItem(fields)
    /\ UNCHANGED <<variant, proc, pc, idx, page, oldEntries, disk, state,
                   gauge, lastResult, lastPub, site>>

\* the callback of doc.Find(site.Selector.Item).Each for one container
EachItem ==
    /\ proc = "running" /\ pc = "extract"
    /\ variant = "query"
    /\ rest # <<>>
    /\ iter' = iter + 1
    /\ rest' = Tail(rest)
    /\ LET fields == FieldsOf(site, Head(rest))
       IN  IF \E i \in 1..Len(items) : items[i].Link = fields.Link
           THEN UNCHANGED <<items, now>>
           ELSE AppendItem(fields)
    /\ UNCHANGED <<variant, proc, pc, idx, page, oldEntries, disk, state,
                   gauge, lastResult, lastPub, site>>

\* Each has visited every container
EachDone ==
    /\ proc = "running" /\ pc = "extract"
    /\ variant = "query"
    /\ rest = <<>>
    /\ pc' = "load"
    /\ UNCHANGED <<variant, now, proc, idx, page, items, oldEntries, disk,
                   state, gauge, lastResult, lastPub, site, rest, iter>>

\* the extraction, then the load, the reconciliation and the snapshot of a
\* first run
ExtractNext ==
    \/ DelimLoop
    \/ EachItem
    \/ EachDone
    \/ LoadOK
    \/ ReconcileStep
    \/ PersistOK

ExtractSpec == ExtractInit /\ [][ExtractNext]_vars

\* ---- RaceSpec: the loop of Spec with the assignments to the map `state`
\* as the Go runtime performs them.  A map assignment is not atomic: the
\* runtime marks the map as being written, stores, and clears the mark.
\* pc = "put_<f>" is the assignment of the string of format f under way.
\* No lock guards the map, on either side.

\* state[...] = <string>: the assignment begins
MapAssignBegin ==
    /\ proc = "running"
    /\ \E f \in Formats : pc = "pub_" \o f /\ pc' = "put_" \o f
    /\ UNCHANGED <<variant, now, proc, idx, page, items, oldEntries, disk,
                   state, gauge, lastResult, lastPub>>
    /\ UNCHANGED scanvars

\* the assignment is done; after the third one updateCache returns
MapAssignEnd ==
    /\ proc = "running"
    /\ \E f \in Formats :
         /\ pc = "put_" \o f
         /\ state' = [state EXCEPT ![<<idx, f>>] = Render(f, items)]
         /\ IF f = "json"
            THEN /\ lastPub' = [k \in Sites \X Formats |->
                                  IF k[1] = idx THEN state'[k] ELSE lastPub[k]]
                 /\ Return(Len(items), "ok")
            ELSE /\ pc' = (IF f = "rss" THEN "pub_atom" ELSE "pub_json")
                 /\ UNCHANGED <<idx, page, items, oldEntries, gauge,
                                lastResult, lastPub>>
    /\ UNCHANGED <<variant, now, proc, disk>>
    /\ UNCHANGED scanvars

\* a handler reads the map while an assignment is under way: a data race.
\* The runtime may detect it and end the process ("fatal error: concurrent
\* map read and map write"); undetected, the request is answered
\* (HandleRequest).
MapRace ==
    /\ proc = "running"
    /\ pc \in {"put_" \o f : f \in Formats}
    /\ Die("crashed", "race")
    /\ UNCHANGED <<variant, now, disk, lastPub>>
    /\ UNCHANGED scanvars

RaceNext ==
    \/ FetchOK
    \/ FetchFail
    \/ Extract
    \/ LoadOK
    \/ LoadFail
    \/ ReconcileStep
    \/ PersistOK
    \/ PersistFail
    \/ MapAssignBegin
    \/ MapAssignEnd
    \/ MapRace
    \/ Sleep
    \/ HandleRequest

RaceSpec == Init /\ [][RaceNext]_vars

\* ---- the claims

\* the current cycle has reconciled: items is the cycle's output, oldEntries
\* the prior snapshot, Extracted(variant, page) the fresh list
AfterReconcile ==
    proc = "running" /\ pc \in {"persist", "pub_rss", "pub_atom", "pub_json"}

\* the snapshot of the current site has been written by this cycle
AfterPersist == proc = "running" /\ pc \in {"pub_rss", "pub_atom", "pub_json"}

\* the item has no identity match in the prior snapshot
IsNew(it) == \A j \in 1..Len(oldEntries) : Triple(oldEntries[j]) # Triple(it)

SortedDesc(s) ==
    \A i, j \in 1..Len(s) : i < j => s[i].AddedAt >= s[j].AddedAt

\* C1: reconciling a cycle's output S with itself (fresh = S, prior = S)
\* yields S again: same items, same order, same timestamps.
C1_ReconcileIdempotent ==
    AfterReconcile => Strip(Reconcile(items, Strip(items))) = Strip(items)

\* C2: an item whose triple is in the prior snapshot (so in the previous
\* fetch) and in this fetch has, in the snapshot this cycle wrote, the
\* timestamp it had in the prior snapshot.  Checked for the version of
\* updateCache the claim cites, src/main.go:178-322.
C2_TimestampStable ==
    (AfterPersist /\ variant = "query") =>
        /\ \A i \in 1..Len(page) :
             (\E j \in 1..Len(oldEntries) :
                  Triple(oldEntries[j]) = Triple(page[i]))
             => \E k \in 1..Len(disk[idx].items) :
                  Triple(disk[idx].items[k]) = Triple(page[i])
        /\ \A k \in 1..Len(disk[idx].items), j \in 1..Len(oldEntries) :
             Triple(disk[idx].items[k]) = Triple(oldEntries[j])
             => disk[idx].items[k].AddedAt = oldEntries[j].AddedAt

\* C2 witness: both items of the prior snapshot were fetched again in the
\* opposite order, some time after they were first seen.
C2_Witness ==
    /\ AfterPersist /\ variant = "query"
    /\ Len(oldEntries) = 2 /\ Len(page) = 2
    /\ Triple(page[1]) = Triple(oldEntries[2])
    /\ Triple(page[2]) = Triple(oldEntries[1])
    /\ oldEntries[1].AddedAt < now
    /\ Len(disk[idx].items) = 2

\* C3: an item with no identity match in the prior snapshot ends the cycle
\* with a timestamp greater than every timestamp of the prior snapshot.
C3_NewItemIsNewest ==
    AfterReconcile =>
        /\ \A i \in 1..Len(items) :
             IsNew(items[i]) =>
                \A j \in 1..Len(oldEntries) :
                    items[i].AddedAt > oldEntries[j].AddedAt
        /\ AfterPersist => disk[idx].items = Strip(items)

\* C3 witness: a cycle with a non-empty prior snapshot found a new item
\* beside a known one.
C3_Witness ==
    /\ AfterPersist
    /\ oldEntries # <<>>
    /\ \E i, k \in 1..Len(items) : IsNew(items[i]) /\ ~IsNew(items[k])

\* C4: when the fresh list holds two items with one triple, the reconcile
\* output holds exactly one item with that triple.
C4_Deduplicated ==
    AfterReconcile =>
        LET fresh == Extracted(variant, page) IN
        \A i, j \in 1..Len(fresh) :
            (i < j /\ fresh[i] = fresh[j]) =>
                Cardinality({k \in 1..Len(items) :
                                Triple(items[k]) = Triple(fresh[i])}) = 1

\* C5: the list written to the snapshot and rendered is sorted by timestamp,
\* newest first, and items with one timestamp keep their extraction order.
C5_SortedStable ==
    /\ AfterReconcile =>
          /\ SortedDesc(items)
          /\ \A i, j \in 1..Len(items) :
                (i < j /\ items[i].AddedAt = items[j].AddedAt)
                => items[i].pos < items[j].pos
    /\ \A s \in Sites : SortedDesc(disk[s].items)
    /\ \A k \in Sites \X Formats : SortedDesc(state[k].items)

\* C5 witness: two items with one timestamp, in extraction order, follow
\* nothing newer in a written snapshot.
C5_Witness ==
    /\ AfterPersist
    /\ Len(items) = 2
    /\ items[1].AddedAt = items[2].AddedAt
    /\ items[1].pos = 1 /\ items[2].pos = 2
    /\ disk[idx].items = Strip(items)

\* C6: the items newly discovered in a cycle appear in its output in the
\* order of their extraction.  Stated for src/main.go:178-322.
C6_NewItemsKeepOrder ==
    (AfterReconcile /\ variant = "query") =>
        \A i, j \in 1..Len(items) :
            (i < j /\ IsNew(items[i]) /\ IsNew(items[j]))
            => items[i].pos < items[j].pos

\* C7: a failed fetch makes the cycle return an error: the snapshot is
\* neither read nor written, nothing is published, the process keeps
\* running and the loop goes on to the next site of the pass (or to the
\* sleep before the next pass).  Checked for src/main.go:95-119, 178-199.
C7_FetchFailureIsolated ==
    [][(variant = "query" /\ pc = "fetch" /\ pc' # "extract") =>
          /\ proc' = "running"
          /\ lastResult'[idx] = "fetch_err"
          /\ gauge'[idx] = 0
          /\ oldEntries' = <<>>
          /\ disk' = disk
          /\ state' = state
          /\ IF idx < NumSites
             THEN pc' = "fetch" /\ idx' = idx + 1
             ELSE pc' = "sleep"]_vars

\* C7 witness: the first site's fetch failed and the second site's cycle of
\* the same pass has written its snapshot.
C7_Witness ==
    /\ variant = "query" /\ NumSites >= 2
    /\ lastResult[1] = "fetch_err"
    /\ idx = 2 /\ AfterPersist

\* C8: a failed read or write of a site's snapshot aborts only that site's
\* cycle; the process keeps running.
C8_SnapshotFailureIsolated ==
    \A s \in Sites :
        lastResult[s] \in {"read_err", "write_err"} => proc = "running"

\* C9: after a failing cycle (fetch or storage) of a site its endpoints
\* still return the strings of its last successful publish.  Stated for
\* src/main.go:1-333.
C9_StaleButAvailable ==
    variant = "query" =>
        \A s \in Sites, f \in Formats :
            lastResult[s] \in {"fetch_err", "read_err", "write_err"}
            => Served(s, f) = lastPub[<<s, f>>]

\* the item list a feed string was rendered from (none for the empty string)
RenderedFrom(str) == [published |-> str # EmptyString, items |-> str.items]

\* C10: at every moment at which a request can be served, the three strings
\* of a site were rendered from one item list.
C10_AtomicPublish ==
    \A s \in Sites :
        ENABLED HandleRequest =>
            /\ RenderedFrom(state[<<s, "rss">>]) = RenderedFrom(state[<<s, "atom">>])
            /\ RenderedFrom(state[<<s, "atom">>]) = RenderedFrom(state[<<s, "json">>])

\* the order of the steps of the background loop: a cycle goes fetch,
\* extract (with normalization), load, reconcile, persist, publish x 3
StepOrder ==
    {<<"fetch", "extract">>, <<"extract", "load">>, <<"load", "reconcile">>,
     <<"reconcile", "persist">>, <<"persist", "pub_rss">>,
     <<"pub_rss", "pub_atom">>, <<"pub_atom", "pub_json">>,
     <<"pub_json", "fetch">>, <<"pub_json", "sleep">>,
     <<"fetch", "sleep">>, <<"sleep", "fetch">>}

\* C11: the steps of a cycle happen in the order fetch, extract/normalize,
\* reconcile, persist, publish; a feed string stored by a cycle renders the
\* item list the site's snapshot file already holds; the snapshot is written
\* at the persist step only, from the list reconciled against the prior
\* snapshot.
C11_StepOrder ==
    [][/\ pc' # pc => <<pc, pc'>> \in StepOrder
       /\ \A k \in Sites \X Formats :
            (state'[k] # state[k] /\ proc' = "running") =>
               /\ k[1] = idx
               /\ pc = "pub_" \o k[2]
               /\ disk[idx].exists
               /\ state'[k].items = disk[idx].items
       /\ disk' # disk =>
               /\ pc = "persist"
               /\ oldEntries = (IF disk[idx].exists THEN disk[idx].items ELSE <<>>)
               /\ disk' = [disk EXCEPT ![idx] =
                             [exists |-> TRUE, items |-> Strip(items)]]]_vars

\* C11 witness: the first feed string of a cycle with items has been stored
\* after the snapshot with the same list was written.
C11_Witness ==
    /\ proc = "running" /\ pc = "pub_atom"
    /\ items # <<>>
    /\ disk[idx].items = Strip(items)
    /\ state[<<idx, "rss">>] = Render("rss", items)

\* C12: the loop handles one site at a time: the site index moves by one
\* when a cycle has ended, a cycle starts with the locals of the previous
\* one gone, a pass starts at the first site only out of the sleep, and the
\* sleep is entered only after the last site.
C12_Sequential ==
    [][/\ idx' # idx =>
            \/ /\ idx' = idx + 1
               /\ pc \in {"fetch", "pub_json"} /\ pc' = "fetch"
            \/ /\ idx' = 1 /\ idx = NumSites
               /\ pc = "sleep" /\ pc' = "fetch"
       /\ (pc' = "fetch" /\ <<pc, idx>> # <<pc', idx'>>) =>
            page' = <<>> /\ items' = <<>> /\ oldEntries' = <<>>
       /\ (pc' = "fetch" /\ idx' = 1 /\ <<pc, idx>> # <<pc', idx'>>) =>
            pc = "sleep"
       /\ (pc' = "sleep" /\ pc # "sleep") => idx = NumSites]_vars

\* C12 witness: after a full pass and the sleep, the second pass is at its
\* first site.
C12_Witness ==
    /\ proc = "running" /\ pc = "extract" /\ idx = 1
    /\ \A s \in Sites : lastResult[s] # "none"

\* C13: a site whose fetch failed is attempted again in the next pass: as
\* long as a site's last cycle stands as failed at fetch, the loop that has
\* to retry it is running.  Stated for src/main.go:1-333.
C13_RetryNeverLost ==
    \A s \in Sites :
        (variant = "query" /\ lastResult[s] = "fetch_err") => proc = "running"

\* C14: when the site has no snapshot file, the load succeeds with an empty
\* prior snapshot and records no error, reconciliation keeps every stamped
\* item as extracted, and the persist step creates the file.
C14_FirstRun ==
    /\ []((proc = "running" /\ pc = "load" /\ ~disk[idx].exists)
            => ENABLED LoadOK)
    /\ [][~disk[idx].exists =>
            /\ (pc = "load" /\ pc' = "reconcile") =>
                  /\ oldEntries' = <<>>
                  /\ proc' = "running"
                  /\ lastResult' = lastResult
            /\ (pc = "reconcile" /\ pc' = "persist") =>
                  /\ \A j \in 1..Len(items) : \E i \in 1..Len(items') :
                        ItemEq(items'[i], items[j])
                  /\ \A i \in 1..Len(items') : \E j \in 1..Len(items) :
                        items'[i] = items[j]
            /\ (pc = "persist" /\ pc' = "pub_rss") =>
                  disk'[idx] = [exists |-> TRUE, items |-> Strip(items)]]_vars

\* C14 witness: the very first cycle of a site, with items, has created the
\* snapshot file.
C14_Witness ==
    /\ proc = "running" /\ pc = "pub_rss"
    /\ lastResult[idx] = "none"
    /\ oldEntries = <<>>
    /\ items # <<>>
    /\ disk[idx] = [exists |-> TRUE, items |-> Strip(items)]

\* ---- the claims about the extraction (ExtractSpec)

\* the delimiter loop is about to run an iteration
AtDelimLoop ==
    proc = "running" /\ pc = "extract" /\ variant \in {"delim", "literal"}

\* the first item-start marker of r and the first item-end marker behind it,
\* found by position: whether both are there, the text between them and the
\* text behind the item-end marker
Fragment(st, r) ==
    LET i == Index(r, st.ItemStart)
        a == SubSeq(r, i + Len(st.ItemStart), Len(r))
        j == Index(a, st.ItemEnd)
    IN  [open |-> i # 0 /\ j = 0,
         closed |-> i # 0 /\ j # 0,
         itemRaw |-> SubSeq(a, 1, j - 1),
         rest |-> SubSeq(a, j + Len(st.ItemEnd), Len(a))]

\* the text between the first start marker of s and the first end marker
\* behind it; `missing` when one of the two does not occur
Between(s, start, end) ==
    LET i == Index(s, start)
        a == SubSeq(s, i + Len(start), Len(s))
        j == Index(a, end)
    IN  [missing |-> i = 0 \/ j = 0, text |-> SubSeq(a, 1, j - 1)]

\* the link markers are not both in the fragment, or the link between them
\* is empty or "/"
BadLink(st, itemRaw) ==
    LET l == Between(itemRaw, st.LinkStart, st.LinkEnd) IN
    l.missing \/ l.text = "" \/ l.text = "/"

\* the rule names an item-start and an item-end marker
HasItemMarkers(st) == st.ItemStart # "" /\ st.ItemEnd # ""

\* C15: when the remaining content has an item-start marker and no item-end
\* marker behind it, the iteration ends the loop: no error, no item added,
\* the items extracted so far kept.
C15_StopAtOpenItem ==
    [][(AtDelimLoop /\ Fragment(site, rest).open) =>
          /\ pc' = "load"
          /\ proc' = "running"
          /\ items' = items]_vars

\* C15 witness: a page of one well-formed item and an item-start without
\* item-end: the loop has ended with the one item.
C15_Witness ==
    /\ proc = "running" /\ pc = "load" /\ variant \in {"delim", "literal"}
    /\ HasSuffix(page, "<li><a href=\"/e\">Title E</a>")
    /\ Len(items) = 1
    /\ items[1].Title = "Title A"

ScenarioPage ==
    "<li><a href=\"/a\">Title A</a></li><li><a href=\"/b\">Title B</a></li>"

\* C16: with the rule and the page of the example and no prior snapshot, the
\* extraction and the reconciliation yield exactly two items, with links
\* https://ex.com/a and https://ex.com/b and titles Title A and Title B,
\* both stamped in this run.
C16_Scenario ==
    (/\ variant = "literal" /\ site = ListRule /\ page = ScenarioPage
     /\ pc \in {"load", "reconcile", "persist"}) =>
        /\ Len(items) = 2
        /\ {<<items[i].Link, items[i].Title>> : i \in 1..Len(items)}
             = {<<"https://ex.com/a", "Title A">>,
                <<"https://ex.com/b", "Title B">>}
        /\ \A i \in 1..Len(items) :
             items[i].AddedAt >= 1 /\ items[i].AddedAt <= now
        /\ oldEntries = <<>>

\* C16 witness: the cycle of the example has reconciled.
C16_Witness ==
    /\ variant = "literal" /\ site = ListRule /\ page = ScenarioPage
    /\ pc = "persist"
    /\ Len(items) = 2

\* C17: a fragment without link-start or link-end marker, or with the link
\* "" or "/", is skipped and the loop goes on behind it.
C17_BadLinkSkipped ==
    [][(/\ AtDelimLoop /\ HasItemMarkers(site)
        /\ Fragment(site, rest).closed
        /\ BadLink(site, Fragment(site, rest).itemRaw)) =>
          /\ pc' = "extract"
          /\ items' = items
          /\ rest' = Fragment(site, rest).rest]_vars

\* C18: a fragment with a link in which the title-start, title-end,
\* description-start or description-end marker has no match yields no item,
\* and the loop goes on behind it.
C18_MissingMarkerSkipped ==
    [][(/\ AtDelimLoop /\ HasItemMarkers(site)
        /\ Fragment(site, rest).closed
        /\ ~BadLink(site, Fragment(site, rest).itemRaw)
        /\ LET itemRaw == Fragment(site, rest).itemRaw IN
             \/ Between(itemRaw, site.TitleStart, site.TitleEnd).missing
             \/ Between(itemRaw, site.DescriptionStart,
                        site.DescriptionEnd).missing) =>
          /\ pc' = "extract"
          /\ items' = items
          /\ rest' = Fragment(site, rest).rest]_vars

\* C19: every iteration of the delimiter loop ends the loop or leaves a
\* strictly shorter remaining content.
C19_LoopProgress ==
    [][(AtDelimLoop /\ iter' # iter) =>
          pc' = "load" \/ Len(rest') < Len(rest)]_vars

\* the link is the origin of the site and nothing else
OriginOnly(st, link) ==
    link \in {"https://" \o HostOf(st.URL), "https://" \o HostOf(st.URL) \o "/"}

\* C20: no item whose link is only the site origin reaches the reconciler,
\* in the query version as in the delimiter versions.
C20_NoDegenerateLink ==
    (proc = "running" /\ pc \in {"load", "reconcile", "persist"}) =>
        \A i \in 1..Len(items) : ~OriginOnly(site, items[i].Link)

\* C21: every link of an extracted item begins with http:// or https://.
C21_LinkHasScheme ==
    (variant = "query" /\ proc = "running") =>
        \A i \in 1..Len(items) :
            \/ HasPrefix(items[i].Link, "http://")
            \/ HasPrefix(items[i].Link, "https://")

\* the callback of the query version is about to visit the next container
AtEach ==
    proc = "running" /\ pc = "extract" /\ variant = "query" /\ rest # <<>>

\* the field rule read as query@attribute: the attribute named behind the @
\* of the elements the part before the @ selects, and the text of the
\* selected elements for a rule without @
FieldAsDocumented(s, rule) ==
    LET i == Index(rule, "@") IN
    IF i = 0 THEN Text(Find(s, rule))
    ELSE Attr(Find(s, SubSeq(rule, 1, i - 1)),
              SubSeq(rule, i + 1, Len(rule)))

\* C22: getField returns, for a rule query@attribute, the value of that
\* attribute of the elements the query selects, and for a rule without @ the
\* text of the selected elements.
C22_FieldRule ==
    AtEach =>
        \A rule \in {site.Selector.Link, site.Selector.Title,
                     site.Selector.Description} :
            getField(Head(rest), rule) = FieldAsDocumented(Head(rest), rule)

\* C23: a container without title element or without description element
\* (and with a link no earlier item has) yields an item, with the empty
\* string as that field.
C23_MissingFieldKept ==
    [][(/\ AtEach
        /\ \/ Find(Head(rest), site.Selector.Title) = <<>>
           \/ Find(Head(rest), site.Selector.Description) = <<>>
        /\ \A i \in 1..Len(items) :
              items[i].Link # FieldsOf(site, Head(rest)).Link) =>
          /\ Len(items') = Len(items) + 1
          /\ SubSeq(items', 1, Len(items)) = items
          /\ Find(Head(rest), site.Selector.Title) = <<>>
                => items'[Len(items')].Title = ""
          /\ Find(Head(rest), site.Selector.Description) = <<>>
                => items'[Len(items')].Description = ""]_vars

\* C23 witness: the snapshot of a page whose only container has a link and
\* neither title nor description.
C23_Witness ==
    /\ variant = "query" /\ site = QueryRule /\ pc = "pub_rss"
    /\ page = <<<<Element("a", "", "href", "/a")>>>>
    /\ disk[idx].items =
          <<[Title |-> "", Link |-> "https://ex.com/a", Description |-> "",
             AddedAt |-> 1]>>

\* C28: in the query version the extracted list, and with it the snapshot,
\* never holds two items with one link.
C28_DistinctLinks ==
    variant = "query" =>
        /\ \A i, j \in 1..Len(items) :
              i # j => items[i].Link # items[j].Link
        /\ \A i, j \in 1..Len(disk[idx].items) :
              i # j => disk[idx].items[i].Link # disk[idx].items[j].Link

\* C28 witness: of two containers with one link and different titles, the
\* first alone is in the snapshot.
C28_Witness ==
    /\ variant = "query" /\ site = QueryRule /\ pc = "pub_rss"
    /\ Len(page) = 2
    /\ getField(page[1], site.Selector.Link) = "/a"
    /\ getField(page[2], site.Selector.Link) = "/a"
    /\ getField(page[1], site.Selector.Title) = "Title A"
    /\ getField(page[2], site.Selector.Title) = ""
    /\ Len(disk[idx].items) = 1
    /\ disk[idx].items[1].Title = "Title A"

\* a step of the background loop
LoopStep ==
    \/ FetchOK \/ FetchFail \/ Extract \/ LoadOK \/ LoadFail \/ ReconcileStep
    \/ PersistOK \/ PersistFail \/ PublishRss \/ PublishAtom \/ PublishJson
    \/ Sleep

\* C24: no fetch hangs and every cycle ends with success or error, so the
\* pass goes on to the later sites: the background loop always has a next
\* step (within the time the model follows).  Stated for src/main.go:1-333.
C24_LoopNeverStuck ==
    (variant = "query" /\ now < MaxTime) => ENABLED LoopStep

\* an assignment to the map `state` is under way
MapWriting == proc = "running" /\ pc \in {"put_" \o f : f \in Formats}

\* C25: reads and writes of the map `state` exclude each other: while an
\* assignment to the map is under way, no handler can read the map.
C25_MapAccessExclusive == MapWriting => ~ENABLED HandleRequest

TriplesOf(s) == {Triple(s[i]) : i \in 1..Len(s)}

\* the triple of items[i] was in the snapshot the process started with
\* (site 1 always starts with PriorSnapshot), has left the snapshot since,
\* and is in the fresh list of this cycle
Reappears(i) ==
    /\ idx = 1
    /\ Triple(items[i]) \in TriplesOf(PriorSnapshot.items)
    /\ Triple(items[i]) \notin TriplesOf(oldEntries)

\* C26: once a cycle has written the snapshot, the triples of the snapshot
\* are exactly the triples extracted in that cycle (what the prior snapshot
\* held beyond them is dropped; an empty fresh list leaves an empty
\* snapshot), and a triple that had left the snapshot and is back carries a
\* timestamp later than the one it had before.
C26_LatestFetchOnly ==
    AfterPersist =>
        /\ TriplesOf(disk[idx].items) = TriplesOf(Extracted(variant, page))
        /\ \A i \in 1..Len(items) :
             Reappears(i) =>
                /\ \A k \in 1..Len(PriorSnapshot.items) :
                     Triple(PriorSnapshot.items[k]) = Triple(items[i])
                        => items[i].AddedAt > PriorSnapshot.items[k].AddedAt
                /\ \E k \in 1..Len(disk[idx].items) :
                     disk[idx].items[k] = StripItem(items[i])

\* C26 witness: the snapshot the process started with held A; a cycle of
\* the site dropped it; the cycle that just wrote the snapshot found A
\* again and dropped what the prior snapshot held.
C26_Witness ==
    /\ AfterPersist
    /\ \E i \in 1..Len(items) : Reappears(i)
    /\ oldEntries # <<>>
    /\ TriplesOf(oldEntries) \cap TriplesOf(disk[idx].items) = {}

\* the background loop is inside updateCache for site s
CycleInProgress(s) == idx = s /\ pc \notin {"fetch", "sleep"}

\* a cycle of site s has run to its end since the process started
SucceededOnce(s) == lastPub[<<s, "json">>] # EmptyString

\* C27: while the process runs, no cycle of a site is in progress and one
\* has succeeded, the three feed strings of the site are the renderings of
\* the item list in the site's snapshot file.
C27_FeedsMatchSnapshot ==
    \A s \in Sites :
        (proc = "running" /\ ~CycleInProgress(s) /\ SucceededOnce(s)) =>
            /\ disk[s].exists
            /\ \A f \in Formats : state[<<s, f>>] = Render(f, disk[s].items)

\* C27 witness: a site with a snapshot of two items whose latest cycle
\* failed at the fetch, after an earlier one had succeeded.
C27_Witness ==
    \E s \in Sites :
        /\ proc = "running" /\ ~CycleInProgress(s) /\ SucceededOnce(s)
        /\ Len(disk[s].items) = 2
        /\ lastResult[s] = "fetch_err"

\* C29: in the list a cycle ends with, every item without identity match in
\* the prior snapshot stands before every item whose timestamp was carried
\* over.
C29_NewBeforeCarried ==
    AfterReconcile =>
        \A i, j \in 1..Len(items) :
            (IsNew(items[i]) /\ ~IsNew(items[j])) => i < j

\* C29 witness: the new item was extracted after the carried one and
\* stands before it.
C29_Witness ==
    /\ AfterReconcile
    /\ \E i, j \in 1..Len(items) :
         /\ IsNew(items[i]) /\ ~IsNew(items[j])
         /\ i < j
         /\ items[i].pos > items[j].pos

\* no cycle of site s has stored a feed string since the process started
NothingPublished(s) ==
    /\ ~SucceededOnce(s)
    /\ ~(idx = s /\ pc \in {"pub_atom", "pub_json"})

\* C30: from process start until a cycle of the site publishes, the three
\* endpoints of the site answer with the empty body, whether or not a
\* snapshot file of the site exists.
C30_NotRestored ==
    \A s \in Sites :
        (proc = "running" /\ NothingPublished(s)) =>
            \A f \in Formats : Served(s, f) = EmptyString

\* C30 witness: the snapshot an earlier run left has been read in the
\* site's first cycle, and the endpoints are still empty.
C30_Witness ==
    /\ proc = "running" /\ pc = "persist"
    /\ NothingPublished(idx)
    /\ disk[idx].exists /\ oldEntries # <<>>
    /\ \A f \in Formats : Served(idx, f) = EmptyString

====
